---- MODULE Spec2Model ----
(***************************************************************************)
(* Model of the two Google gateways of backend/google_services:            *)
(*   maps.py   GoogleMapsService   (directions, places, geocoding)         *)
(*   sheets.py GoogleSheetsService (spreadsheet values, workout tracker)   *)
(*                                                                         *)
(* One invocation of a gateway method runs at a time.  The invocation is   *)
(* a stack of frames (a method that calls or awaits another method pushes  *)
(* a frame), every vendor-client call and HTTP request is appended to log  *)
(* with the thread that executed it and its outcome, and the vendor's      *)
(* answer to each request is chosen nondeterministically among the answers *)
(* the vendor can give.  The spreadsheets kept by the vendor outlive the   *)
(* invocations: remote holds them, and a request that the vendor has       *)
(* answered successfully has had its effect on remote.                     *)
(***************************************************************************)
EXTENDS Integers, Sequences, FiniteSets, TLC

VARIABLES
    inv,     \* the method invoked by the caller and its arguments
    stack,   \* frames [m, pc, loc] of the running invocation, innermost last
    ret,     \* value or exception delivered by the frame that ended last
    thread,  \* the thread executing the invocation's code: "loop" or "worker"
    task,    \* the calling task: "idle", "running" or "suspended"
    log,     \* the vendor / HTTP requests of this invocation, in order
    trace,   \* the method calls and their ends of this invocation, in order
    remote   \* the vendor's spreadsheets: per id, the rows of each sheet

vars == <<inv, stack, ret, thread, task, log, trace, remote>>

(***************************************************************************)
(* Bounds of the model.                                                    *)
(***************************************************************************)
MaxRoutes == 2      \* routes in one directions result
MaxRows == 2        \* rows in one fetched range
MaxPlaces == 1      \* places in one nearby-search result
MaxEntries == 1     \* rows appended to the vendor's sheets

(***************************************************************************)
(* Python values.                                                          *)
(***************************************************************************)
\* An optional value (a missing dict key, or None) is the empty set; a
\* present one is a singleton.
None == {}
Some(v) == {v}
Opt(S) == {None} \cup {Some(v) : v \in S}
The(o) == CHOOSE v \in o : TRUE

\* dict.get(key, default)
Get(o, default) == IF o = None THEN default ELSE The(o)

NoRet == [kind |-> "none", v |-> "-"]
Value(v) == [kind |-> "value", v |-> v]
Exc(e) == [kind |-> "exc", v |-> e]
NoInv == [m |-> "-"]

(***************************************************************************)
(* Frames.                                                                 *)
(***************************************************************************)
Top == stack[Len(stack)]
At(m, p) == stack # <<>> /\ Top.m = m /\ Top.pc = p
Frame(m, p, loc) == [m |-> m, pc |-> p, loc |-> loc]
Pop == SubSeq(stack, 1, Len(stack) - 1)

\* the running frame moves to label p with locals loc
Goto(p, loc) ==
    /\ stack' = [stack EXCEPT ![Len(stack)] = Frame(Top.m, p, loc)]
    /\ UNCHANGED trace

\* the running frame calls (awaits) method m: it waits at label p
Event(ev, m) == [ev |-> ev, m |-> m]

CallMethod(p, loc, m, args) ==
    /\ stack' = Append([stack EXCEPT ![Len(stack)] = Frame(Top.m, p, loc)],
                       Frame(m, "start", args))
    /\ trace' = Append(trace, Event("call", m))

\* the running frame ends with `return v` / with an exception leaving it
Return(v) ==
    /\ stack' = Pop
    /\ ret' = Value(v)
    /\ trace' = Append(trace, Event("return", Top.m))
Raise(e) ==
    /\ stack' = Pop
    /\ ret' = Exc(e)
    /\ trace' = Append(trace, Event("raise", Top.m))

(***************************************************************************)
(* The vendor's spreadsheets.  A spreadsheet is the rows of its sheets; of *)
(* the sheets, the ones the gateway names are followed (the two tracker    *)
(* sheets, the two history sheets, the summary sheet), any other sheet is  *)
(* left unconstrained.  A request that fails leaves the spreadsheets as    *)
(* they were.                                                              *)
(***************************************************************************)
SheetIds == {"s1", "s2"}

SheetNames == {"Workouts", "Nutrition", "Workout History", "Nutrition History", "Summary"}

\* the sheet an A1 range names: the text before '!'
RangeSheet(range) ==
    CASE range \in {"Workouts!A1:E1", "Workouts!A:E"} -> "Workouts"
      [] range \in {"Nutrition!A1:G1", "Nutrition!A1:E1", "Nutrition!A:G"} -> "Nutrition"
      [] range \in {"Workout History!A:Z", "Workout History!A:E"} -> "Workout History"
      [] range \in {"Nutrition History!A:Z"} -> "Nutrition History"
      [] range \in {"Summary!A1:E4", "Summary!A2:E4"} -> "Summary"
      [] OTHER -> "Sheet1"

\* the first row an A1 range names
RangeRow(range) == IF range = "Summary!A2:E4" THEN 2 ELSE 1

NoSpreadsheet == [exists |-> FALSE, sheets |-> [n \in SheetNames |-> None]]

\* spreadsheets().create(body): a spreadsheet with the sheets of the body,
\* all empty
NewSpreadsheet(sheets) ==
    [exists |-> TRUE,
     sheets |-> [n \in SheetNames |->
                    IF \E i \in DOMAIN sheets : sheets[i].title = n THEN Some(<<>>)
                    ELSE None]]

HasSheet(store, id, name) ==
    store[id].exists /\ (name \in SheetNames => store[id].sheets[name] # None)

\* values().update: the rows of values replace the rows from row `first` on
WriteRows(rows, first, values) ==
    LET last == first + Len(values) - 1
        n == IF Len(rows) > last THEN Len(rows) ELSE last
    IN  [i \in 1..n |-> IF first <= i /\ i <= last THEN values[i - first + 1]
                        ELSE IF i <= Len(rows) THEN rows[i] ELSE <<>>]

\* whether the vendor can carry out the request on the spreadsheets it has
Accepts(store, op, req, resp) ==
    CASE op = "spreadsheets.create" -> ~store[resp.spreadsheetId].exists
      [] op = "spreadsheets.get" -> store[req.spreadsheetId].exists
      [] op = "spreadsheets.batchUpdate" ->
            /\ store[req.spreadsheetId].exists
            /\ \A i \in DOMAIN req.requests :
                 store[req.spreadsheetId].sheets[req.requests[i].addSheet.title] = None
      [] op \in {"values.get", "values.update", "values.append"} ->
            HasSheet(store, req.spreadsheetId, RangeSheet(req.range))
      [] OTHER -> TRUE

\* the spreadsheets after the vendor has carried out the request
Applied(store, op, req, resp) ==
    CASE op = "spreadsheets.create" ->
            [store EXCEPT ![resp.spreadsheetId] = NewSpreadsheet(req.sheets)]
      [] op = "spreadsheets.batchUpdate" ->
            [store EXCEPT ![req.spreadsheetId].sheets =
                [n \in SheetNames |->
                    IF \E i \in DOMAIN req.requests : req.requests[i].addSheet.title = n
                    THEN Some(<<>>) ELSE @[n]]]
      [] op = "values.update" /\ RangeSheet(req.range) \in SheetNames ->
            [store EXCEPT ![req.spreadsheetId].sheets[RangeSheet(req.range)] =
                Some(WriteRows(The(@), RangeRow(req.range), req.values))]
      [] op = "values.append" /\ RangeSheet(req.range) \in SheetNames ->
            [store EXCEPT ![req.spreadsheetId].sheets[RangeSheet(req.range)] =
                Some(The(@) \o req.values)]
      [] OTHER -> store

\* one vendor-client call or HTTP request, executed on the current thread
Request(op, req, ok, resp) ==
    /\ log' = Append(log, [op |-> op, req |-> req, thread |-> thread,
                           ok |-> ok, resp |-> resp])
    /\ remote' = IF ok THEN Applied(remote, op, req, resp) ELSE remote

(***************************************************************************)
(* asyncio.to_thread(f): f runs on a worker thread and the calling task is *)
(* suspended until f has finished; then the task resumes on the event loop *)
(* with f's value or exception.                                            *)
(***************************************************************************)
ToThread(m, from, to) ==
    /\ At(m, from)
    /\ thread' = "worker"
    /\ task' = "suspended"
    /\ Goto(to, Top.loc)
    /\ UNCHANGED <<inv, ret, log, remote>>

Resumed == thread' = "loop" /\ task' = "running"

(***************************************************************************)
(* What the vendor can answer.                                             *)
(***************************************************************************)
Coords == {0, 7}
Addresses == {"1 Main St"}
PlaceIds == {"p1"}

\* client.geocode(address): the client raises, or returns a list of results
GeocodeResponses ==
    {[kind |-> k, lat |-> 0, lng |-> 0] : k \in {"error", "empty", "malformed"}}
    \cup {[kind |-> "ok", lat |-> la, lng |-> ln] : la \in Coords, ln \in Coords}

\* a place of a nearby-search answer: any of its keys may be missing
RawPlaces ==
    { [name |-> Some("Gym A"), vicinity |-> Some("2 Oak Ave"), rating |-> Some(4),
       place_id |-> Some("p1"), geometry |-> Some([location |-> <<0, 7>>])],
      [name |-> None, vicinity |-> None, rating |-> None,
       place_id |-> None, geometry |-> None] }

RECURSIVE SeqsUpTo(_, _)
SeqsUpTo(S, n) ==
    IF n = 0 THEN {<<>>}
    ELSE LET shorter == SeqsUpTo(S, n - 1)
         IN  shorter \cup {Append(q, x) : q \in {r \in shorter : Len(r) = n - 1}, x \in S}

\* requests.get(url, params): the request raises (timeout, connection), or
\* answers a non-2xx status, or a 2xx body that is not JSON, or a JSON
\* object whose 'results' key may be missing
NearbyResponses ==
    {[kind |-> k, results |-> None] : k \in {"exception", "http_error", "bad_json"}}
    \cup {[kind |-> "ok", results |-> r] : r \in Opt(SeqsUpTo(RawPlaces, MaxPlaces))}

HttpOk(r) == r.kind \in {"ok", "bad_json"}

\* a vendor-client call that raises or returns a payload
ClientResponses == {[kind |-> "error", payload |-> "-"], [kind |-> "ok", payload |-> "data"]}

(***************************************************************************)
(* maps.py: geocode_address                                                *)
(***************************************************************************)
geocode_address_await == ToThread("geocode_address", "start", "geocode")

\* the worker function geocode()
Geocoded(r) ==
    IF r.kind = "error" THEN Exc("ApiError")
    ELSE IF r.kind = "empty" THEN Exc("ValueError")
    ELSE IF r.kind = "malformed" THEN Exc("KeyError")
    ELSE Value(<<r.lat, r.lng>>)

geocode_address_geocode ==
    /\ At("geocode_address", "geocode")
    /\ \E r \in GeocodeResponses :
         /\ Request("geocode", [address |-> Top.loc.address], r.kind # "error", r)
         /\ Goto("resume", [Top.loc EXCEPT !.out = Geocoded(r)])
    /\ UNCHANGED <<inv, ret, thread, task>>

geocode_address_resume ==
    /\ At("geocode_address", "resume")
    /\ Resumed
    /\ IF Top.loc.out.kind = "exc" THEN Raise(Top.loc.out.v) ELSE Return(Top.loc.out.v)
    /\ UNCHANGED <<inv, log, remote>>

(***************************************************************************)
(* maps.py: _find_places_nearby                                            *)
(***************************************************************************)
NearbyRadius == 50000

Place(raw) ==
    [name |-> Get(raw.name, "Unknown"),
     address |-> Get(raw.vicinity, "No address"),
     rating |-> IF raw.rating = None THEN [number |-> FALSE, n |-> 0, s |-> "No rating"]
                ELSE [number |-> TRUE, n |-> The(raw.rating), s |-> ""],
     place_id |-> Get(raw.place_id, ""),
     location |-> IF raw.geometry = None THEN <<>> ELSE The(raw.geometry).location]

Places(results) == [i \in 1..Len(results) |-> Place(results[i])]

\* the worker function search(): raise_for_status, json, the places
Searched(r) ==
    IF r.kind = "exception" THEN Exc("RequestException")
    ELSE IF r.kind = "http_error" THEN Exc("HTTPError")
    ELSE IF r.kind = "bad_json" THEN Exc("JSONDecodeError")
    ELSE Value(Places(Get(r.results, <<>>)))

\* mutant: the request asks for the first type of the caller's filter
NearbyParams_filtered(lat, lng, type_filter, radius) ==
    [location |-> <<lat, lng>>, radius |-> radius,
     type |-> IF type_filter = None THEN "gym" ELSE The(type_filter)[1]]

NearbyParams(lat, lng, type_filter, radius) ==
    [location |-> <<lat, lng>>, radius |-> radius, type |-> "gym"]

find_places_nearby_await == ToThread("_find_places_nearby", "start", "search")

find_places_nearby_search ==
    /\ At("_find_places_nearby", "search")
    /\ \E r \in NearbyResponses :
         /\ Request("nearbysearch",
                    NearbyParams(Top.loc.lat, Top.loc.lng, Top.loc.type_filter, Top.loc.radius),
                    HttpOk(r), r)
         /\ Goto("resume", [Top.loc EXCEPT !.out = Searched(r)])
    /\ UNCHANGED <<inv, ret, thread, task>>

find_places_nearby_resume ==
    /\ At("_find_places_nearby", "resume")
    /\ Resumed
    /\ IF Top.loc.out.kind = "exc" THEN Return(<<>>) ELSE Return(Top.loc.out.v)
    /\ UNCHANGED <<inv, log, remote>>

(***************************************************************************)
(* maps.py: find_nearby_workout_locations                                  *)
(***************************************************************************)
\* location_or_address: a str, a dict whose 'lat' / 'lng' may be missing or
\* None, or any other value
Locations ==
    {[kind |-> "str", address |-> a, lat |-> None, lng |-> None] : a \in Addresses}
    \cup {[kind |-> "dict", address |-> "-", lat |-> la, lng |-> ln] :
            la \in Opt(Coords), ln \in Opt(Coords)}
    \cup {[kind |-> "other", address |-> "-", lat |-> None, lng |-> None]}

IsNone(o) == o = None

\* mutant: the ValueError of an invalid input is raised outside the try
find_nearby_workout_locations_start_unguarded ==
    /\ At("find_nearby_workout_locations", "start")
    /\ LET a == Top.loc.arg IN
       IF a.kind = "str"
       THEN /\ CallMethod("geocoded", Top.loc, "geocode_address",
                          [address |-> a.address, out |-> NoRet])
            /\ UNCHANGED ret
       ELSE IF a.kind = "dict" /\ ~(IsNone(a.lat) \/ IsNone(a.lng))
       THEN /\ Goto("search", [Top.loc EXCEPT !.lat = a.lat, !.lng = a.lng])
            /\ UNCHANGED ret
       ELSE Raise("ValueError")
    /\ UNCHANGED <<inv, thread, task, log, remote>>

find_nearby_workout_locations_start ==
    /\ At("find_nearby_workout_locations", "start")
    /\ LET a == Top.loc.arg IN
       IF a.kind = "str"
       THEN /\ CallMethod("geocoded", Top.loc, "geocode_address",
                          [address |-> a.address, out |-> NoRet])
            /\ UNCHANGED ret
       ELSE IF a.kind = "dict" /\ ~(IsNone(a.lat) \/ IsNone(a.lng))
       THEN /\ Goto("search", [Top.loc EXCEPT !.lat = a.lat, !.lng = a.lng])
            /\ UNCHANGED ret
       ELSE Return(<<>>)
    /\ UNCHANGED <<inv, thread, task, log, remote>>

\* mutant: lat and lng of the geocoding are taken in the wrong order
find_nearby_workout_locations_geocoded_swapped ==
    /\ At("find_nearby_workout_locations", "geocoded")
    /\ ret.kind # "none"
    /\ IF ret.kind = "value"
       THEN /\ Goto("search", [Top.loc EXCEPT !.lat = Some(ret.v[2]), !.lng = Some(ret.v[1])])
            /\ ret' = NoRet
       ELSE Return(<<>>)
    /\ UNCHANGED <<inv, thread, task, log, remote>>

find_nearby_workout_locations_geocoded ==
    /\ At("find_nearby_workout_locations", "geocoded")
    /\ ret.kind # "none"
    /\ IF ret.kind = "value"
       THEN /\ Goto("search", [Top.loc EXCEPT !.lat = Some(ret.v[1]), !.lng = Some(ret.v[2])])
            /\ ret' = NoRet
       ELSE Return(<<>>)
    /\ UNCHANGED <<inv, thread, task, log, remote>>

find_nearby_workout_locations_search ==
    /\ At("find_nearby_workout_locations", "search")
    /\ CallMethod("searched", Top.loc, "_find_places_nearby",
                  [lat |-> The(Top.loc.lat), lng |-> The(Top.loc.lng),
                   type_filter |-> Some(<<"gym", "fitness">>), radius |-> NearbyRadius,
                   out |-> NoRet])
    /\ UNCHANGED <<inv, ret, thread, task, log, remote>>

find_nearby_workout_locations_searched ==
    /\ At("find_nearby_workout_locations", "searched")
    /\ ret.kind # "none"
    /\ IF ret.kind = "value" THEN Return(ret.v) ELSE Return(<<>>)
    /\ UNCHANGED <<inv, thread, task, log, remote>>

(***************************************************************************)
(* maps.py: get_place_details, search_places, get_distance_matrix          *)
(***************************************************************************)
\* the vendor-client call of a worker function that returns what the client
\* returns
ClientFetch(m, op, req) ==
    /\ At(m, "fetch")
    /\ \E r \in ClientResponses :
         /\ r.kind = "ok" => Accepts(remote, op, req, r)
         /\ Request(op, req, r.kind = "ok", r)
         /\ Goto("resume", [Top.loc EXCEPT !.out =
                IF r.kind = "ok" THEN Value(r.payload) ELSE Exc("ApiError")])
    /\ UNCHANGED <<inv, ret, thread, task>>

\* the task resumes; `except Exception: logger.error(...); raise`
ResumeOrRaise(m) ==
    /\ At(m, "resume")
    /\ Resumed
    /\ IF Top.loc.out.kind = "exc" THEN Raise(Top.loc.out.v) ELSE Return(Top.loc.out.v)
    /\ UNCHANGED <<inv, log, remote>>

get_place_details_await == ToThread("get_place_details", "start", "fetch")
get_place_details_fetch ==
    ClientFetch("get_place_details", "place", [place_id |-> Top.loc.place_id])
get_place_details_resume == ResumeOrRaise("get_place_details")

search_places_await == ToThread("search_places", "start", "fetch")
search_places_search ==
    ClientFetch("search_places", "places",
                [query |-> Top.loc.query, location |-> Top.loc.location,
                 radius |-> Top.loc.radius])
search_places_resume == ResumeOrRaise("search_places")

get_distance_matrix_await == ToThread("get_distance_matrix", "start", "fetch")
get_distance_matrix_fetch ==
    ClientFetch("get_distance_matrix", "distance_matrix",
                [origins |-> Top.loc.origins, destinations |-> Top.loc.destinations,
                 mode |-> Top.loc.mode])
\* mutant: the error is swallowed, as the swallowing methods do
get_distance_matrix_resume_swallowing ==
    /\ At("get_distance_matrix", "resume")
    /\ Resumed
    /\ IF Top.loc.out.kind = "exc" THEN Return("{}") ELSE Return(Top.loc.out.v)
    /\ UNCHANGED <<inv, log, remote>>

get_distance_matrix_resume == ResumeOrRaise("get_distance_matrix")

(***************************************************************************)
(* maps.py: get_location_details                                           *)
(***************************************************************************)
\* requests.get raises, or answers a body that is not JSON, or a JSON object
\* whose 'status' and 'result' keys may be missing (no raise_for_status)
DetailsResponses ==
    {[kind |-> k, status |-> None, result |-> None] : k \in {"exception", "bad_json"}}
    \cup {[kind |-> "json", status |-> st, result |-> rs] :
            st \in Opt({"OK", "NOT_FOUND"}), rs \in Opt({"details"})}

EmptyDict == "{}"

\* mutant: the 'result' is returned whatever the 'status' says
Details_any_status(r) ==
    IF r.kind = "exception" THEN Exc("RequestException")
    ELSE IF r.kind = "bad_json" THEN Exc("JSONDecodeError")
    ELSE IF r.status = None THEN Exc("KeyError")
    ELSE IF r.result = None THEN Exc("KeyError") ELSE Value(The(r.result))

\* the worker function fetch()
Details(r) ==
    IF r.kind = "exception" THEN Exc("RequestException")
    ELSE IF r.kind = "bad_json" THEN Exc("JSONDecodeError")
    ELSE IF r.status = None THEN Exc("KeyError")
    ELSE IF The(r.status) = "OK"
         THEN IF r.result = None THEN Exc("KeyError") ELSE Value(The(r.result))
         ELSE Value(EmptyDict)

get_location_details_await == ToThread("get_location_details", "start", "fetch")

get_location_details_fetch ==
    /\ At("get_location_details", "fetch")
    /\ \E r \in DetailsResponses :
         /\ Request("details", [place_id |-> Top.loc.place_id], r.kind # "exception", r)
         /\ Goto("resume", [Top.loc EXCEPT !.out = Details(r)])
    /\ UNCHANGED <<inv, ret, thread, task>>

get_location_details_resume ==
    /\ At("get_location_details", "resume")
    /\ Resumed
    /\ IF Top.loc.out.kind = "exc" THEN Return(EmptyDict) ELSE Return(Top.loc.out.v)
    /\ UNCHANGED <<inv, log, remote>>

(***************************************************************************)
(* maps.py: find_running_trails                                            *)
(***************************************************************************)
TrailsRadius == 5000

\* location: a dict whose 'lat' / 'lng' keys may be missing
TrailLocations == {[lat |-> la, lng |-> ln] : la \in Opt({0}), ln \in Opt({0})}

find_running_trails_await == ToThread("find_running_trails", "start", "search")

\* the worker function search(): location['lat'] and location['lng'] are
\* read before the request is made
find_running_trails_search ==
    /\ At("find_running_trails", "search")
    /\ LET l == Top.loc.location IN
       IF l.lat = None \/ l.lng = None
       THEN /\ Goto("resume", [Top.loc EXCEPT !.out = Exc("KeyError")])
            /\ UNCHANGED <<log, remote>>
       ELSE \E r \in NearbyResponses :
              /\ Request("nearbysearch",
                         [location |-> <<The(l.lat), The(l.lng)>>,
                          radius |-> Top.loc.radius, keyword |-> "running trail"],
                         HttpOk(r), r)
              /\ Goto("resume", [Top.loc EXCEPT !.out = Searched(r)])
    /\ UNCHANGED <<inv, ret, thread, task>>

\* `except Exception: return []`, then `finally: gc.collect()`
find_running_trails_resume ==
    /\ At("find_running_trails", "resume")
    /\ Resumed
    /\ IF Top.loc.out.kind = "exc" THEN Return(<<>>) ELSE Return(Top.loc.out.v)
    /\ UNCHANGED <<inv, log, remote>>

(***************************************************************************)
(* maps.py: get_directions                                                 *)
(***************************************************************************)
Leg(distance, duration, instructions) ==
    [distance |-> [text |-> distance], duration |-> [text |-> duration],
     steps |-> [j \in 1..Len(instructions) |-> [html_instructions |-> instructions[j]]]]

\* routes as the Directions API returns them for a driving request: every
\* leg carries a distance text, a duration text and its steps
SampleRoutes ==
    { [legs |-> <<Leg("1.2 km", "5 mins", <<"Head north">>)>>],
      [legs |-> <<Leg("3 km", "9 mins", <<"Head south", "Turn left">>)>>],
      [legs |-> <<Leg("0.5 km", "2 mins", <<"Turn right">>),
                  Leg("8 km", "20 mins", <<"Merge", "Keep left", "Exit">>)>>] }

\* client.directions(...): the client raises, or returns the list of routes
DirectionsResponses ==
    {[kind |-> "error", result |-> <<>>]}
    \cup {[kind |-> "ok", result |-> r] : r \in SeqsUpTo(SampleRoutes, MaxRoutes)}

\* one line of a returned text; the text is its lines joined by "\n"
Line(tag, n, text) == [tag |-> tag, n |-> n, text |-> text]

\* for route in result: ... directions.append({...})
Directions(result) ==
    [i \in 1..Len(result) |->
        [distance |-> result[i].legs[1].distance.text,
         duration |-> result[i].legs[1].duration.text,
         steps |-> [j \in 1..Len(result[i].legs[1].steps) |->
                       result[i].legs[1].steps[j].html_instructions]]]

\* the lines appended for the i-th route
RouteBlock(i, route) ==
    <<Line("Route", i, ""), Line("Distance", 0, route.distance),
      Line("Duration", 0, route.duration), Line("Steps:", 0, "")>>
    \o [j \in 1..Len(route.steps) |-> Line("-", 0, route.steps[j])]
    \o <<Line("", 0, "")>>

RECURSIVE RouteBlocks(_, _)
RouteBlocks(directions, i) ==
    IF i > Len(directions) THEN <<>>
    ELSE RouteBlock(i, directions[i]) \o RouteBlocks(directions, i + 1)

\* mutant: only the first route is reported
FormatDirections_first_route(result) == RouteBlocks(Directions(<<result[1]>>), 1)

\* for i, route in enumerate(directions, 1): ...
FormatDirections(result) == RouteBlocks(Directions(result), 1)

get_directions_call ==
    /\ At("get_directions", "start")
    /\ \E r \in DirectionsResponses :
         /\ Request("directions",
                    [origin |-> Top.loc.origin, destination |-> Top.loc.destination,
                     mode |-> "driving", alternatives |-> TRUE],
                    r.kind = "ok", r)
         /\ IF r.kind = "error"
            THEN Return(<<Line("Error getting directions", 0, "ApiError")>>)
            ELSE IF r.result = <<>>
            THEN Return(<<Line("No directions found.", 0, "")>>)
            ELSE Return(FormatDirections(r.result))
    /\ UNCHANGED <<inv, thread, task>>

(***************************************************************************)
(* maps.py: find_nearby_places                                             *)
(***************************************************************************)
PlacesRadius == 5000

\* a place of the client's nearby_search answer: only 'name' is read with
\* place['name'], the other keys with place.get
RawListings ==
    { [name |-> Some("Gym A"), vicinity |-> Some("2 Oak Ave"), rating |-> Some(4),
       types |-> Some(<<"gym", "health">>)],
      [name |-> Some("Gym B"), vicinity |-> None, rating |-> None, types |-> None],
      [name |-> None, vicinity |-> None, rating |-> None, types |-> None] }

\* the client raises, returns nothing, or returns a dict whose 'results'
\* key may be missing
ListingResponses ==
    {[kind |-> k, results |-> None] : k \in {"error", "empty"}}
    \cup {[kind |-> "ok", results |-> r] : r \in Opt(SeqsUpTo(RawListings, MaxPlaces))}

RECURSIVE JoinComma(_)
JoinComma(q) ==
    IF q = <<>> THEN ""
    ELSE IF Len(q) = 1 THEN q[1]
    ELSE q[1] \o ", " \o JoinComma(Tail(q))

ListingBlock(i, place) ==
    <<Line("place", i, The(place.name)),
      Line("Address", 0, Get(place.vicinity, "No address available")),
      Line("Rating", 0, IF place.rating = None THEN "No rating"
                        ELSE ToString(The(place.rating))),
      Line("Types", 0, JoinComma(Get(place.types, <<>>))),
      Line("", 0, "")>>

RECURSIVE ListingBlocks(_, _)
ListingBlocks(places, i) ==
    IF i > Len(places) THEN <<>>
    ELSE ListingBlock(i, places[i]) \o ListingBlocks(places, i + 1)

find_nearby_places_call ==
    /\ At("find_nearby_places", "start")
    /\ \E r \in ListingResponses :
         /\ Request("nearby_search",
                    [location |-> Top.loc.location, radius |-> Top.loc.radius,
                     type |-> Top.loc.type],
                    r.kind # "error", r)
         /\ IF r.kind = "error"
            THEN Return(<<Line("Error finding nearby places", 0, "ApiError")>>)
            ELSE IF r.kind = "empty" \/ r.results = None
            THEN Return(<<Line("No places found.", 0, "")>>)
            ELSE IF \E i \in 1..Len(The(r.results)) : The(r.results)[i].name = None
            THEN Return(<<Line("Error finding nearby places", 0, "KeyError")>>)
            ELSE Return(ListingBlocks(The(r.results), 1))
    /\ UNCHANGED <<inv, thread, task>>

(***************************************************************************)
(* sheets.py: what the Sheets client can answer                            *)
(***************************************************************************)
Titles == {"My Tracker"}
Ranges == {"Sheet1!A1:C3"}

\* a cell is a str (its characters) or a number
StrCell(chars) == [number |-> FALSE, n |-> 0, s |-> chars]
NumCell(n) == [number |-> TRUE, n |-> n, s |-> <<>>]

SampleRows ==
    { <<StrCell(<<"A", "b">>)>>,
      <<StrCell(<<"b">>), NumCell(12)>>,
      <<>>,
      <<StrCell(<<"B", "A">>), StrCell(<<"a", "1">>)>>,
      <<NumCell(21)>> }

\* spreadsheets().values().get(...).execute(): the client raises, or
\* returns a dict whose 'values' key is missing when the range is empty
ValuesResponses ==
    {[kind |-> "error", values |-> None]}
    \cup {[kind |-> "ok", values |-> v] : v \in Opt(SeqsUpTo(SampleRows, MaxRows))}

\* spreadsheets().create(...).execute(): the id answered is a new one
CreateResponses ==
    {[kind |-> "error", spreadsheetId |-> "-"]}
    \cup {[kind |-> "ok", spreadsheetId |-> id] : id \in SheetIds}

CreateAnswers(store) ==
    {r \in CreateResponses : r.kind = "ok" => ~store[r.spreadsheetId].exists}

\* values().get(...).execute() of a range: the rows of a followed sheet, or
\* anything of another sheet; an error always, and only an error when the
\* spreadsheet or the sheet does not exist
ValuesAnswers(store, id, range) ==
    IF RangeSheet(range) \in SheetNames
    THEN {[kind |-> "error", values |-> None]}
         \cup (IF HasSheet(store, id, RangeSheet(range))
               THEN LET rows == The(store[id].sheets[RangeSheet(range)])
                    IN  {[kind |-> "ok",
                          values |-> IF rows = <<>> THEN None ELSE Some(rows)]}
               ELSE {})
    ELSE {r \in ValuesResponses : r.kind = "ok" => store[id].exists}

(***************************************************************************)
(* sheets.py: create_spreadsheet, update_values, batch_update (plain       *)
(* methods: they run on the thread of their caller) and append_values      *)
(* (async, and calls the client itself)                                    *)
(***************************************************************************)
\* the client call of a method whose body is: try: return <call> except: raise
ClientCall(m, op, req) ==
    /\ At(m, "start")
    /\ \E r \in ClientResponses :
         /\ r.kind = "ok" => Accepts(remote, op, req, r)
         /\ Request(op, req, r.kind = "ok", r)
         /\ IF r.kind = "ok" THEN Return(r.payload) ELSE Raise("HttpError")
    /\ UNCHANGED <<inv, thread, task>>

create_spreadsheet_call ==
    /\ At("create_spreadsheet", "start")
    /\ \E r \in CreateAnswers(remote) :
         /\ Request("spreadsheets.create", [title |-> Top.loc.title, sheets |-> <<>>],
                    r.kind = "ok", r)
         /\ IF r.kind = "ok" THEN Return(r) ELSE Raise("HttpError")
    /\ UNCHANGED <<inv, thread, task>>

update_values_call ==
    ClientCall("update_values", "values.update",
               [spreadsheetId |-> Top.loc.spreadsheet_id, range |-> Top.loc.range_name,
                valueInputOption |-> "RAW", values |-> Top.loc.values])

append_values_call ==
    ClientCall("append_values", "values.append",
               [spreadsheetId |-> Top.loc.spreadsheet_id, range |-> Top.loc.range_name,
                valueInputOption |-> "USER_ENTERED", insertDataOption |-> "INSERT_ROWS",
                values |-> Top.loc.values])

batch_update_call ==
    ClientCall("batch_update", "spreadsheets.batchUpdate",
               [spreadsheetId |-> Top.loc.spreadsheet_id, requests |-> Top.loc.requests])

(***************************************************************************)
(* sheets.py: get_spreadsheet, get_values, get_workout_history,            *)
(* get_nutrition_history                                                   *)
(***************************************************************************)
get_spreadsheet_await == ToThread("get_spreadsheet", "start", "fetch")
get_spreadsheet_fetch ==
    ClientFetch("get_spreadsheet", "spreadsheets.get",
                [spreadsheetId |-> Top.loc.spreadsheet_id])
get_spreadsheet_resume == ResumeOrRaise("get_spreadsheet")

\* the worker function fetch(): result.get('values', [])
ValuesFetch(m, range) ==
    /\ At(m, "fetch")
    /\ \E r \in ValuesAnswers(remote, Top.loc.spreadsheet_id, range) :
         /\ Request("values.get",
                    [spreadsheetId |-> Top.loc.spreadsheet_id, range |-> range],
                    r.kind = "ok", r)
         /\ Goto("resume", [Top.loc EXCEPT !.out =
                IF r.kind = "ok" THEN Value(Get(r.values, <<>>)) ELSE Exc("HttpError")])
    /\ UNCHANGED <<inv, ret, thread, task>>

get_values_await == ToThread("get_values", "start", "fetch")
get_values_fetch == ValuesFetch("get_values", Top.loc.range_name)
get_values_resume == ResumeOrRaise("get_values")

get_workout_history_await == ToThread("get_workout_history", "start", "fetch")
get_workout_history_fetch == ValuesFetch("get_workout_history", "Workout History!A:Z")
get_workout_history_resume == ResumeOrRaise("get_workout_history")

get_nutrition_history_await == ToThread("get_nutrition_history", "start", "fetch")
get_nutrition_history_fetch == ValuesFetch("get_nutrition_history", "Nutrition History!A:Z")
get_nutrition_history_resume == ResumeOrRaise("get_nutrition_history")

(***************************************************************************)
(* sheets.py: create_workout_tracker                                       *)
(***************************************************************************)
TrackerRows == 1000
TrackerColumns == 10

TrackerSheets ==
    << [title |-> "Workouts", rowCount |-> TrackerRows, columnCount |-> TrackerColumns],
       [title |-> "Nutrition", rowCount |-> TrackerRows, columnCount |-> TrackerColumns] >>

WorkoutHeaders == << <<"Date", "Workout Type", "Duration", "Calories Burned", "Notes">> >>
NutritionHeaders ==
    << <<"Date", "Meal", "Calories", "Protein (g)", "Carbs (g)", "Fat (g)", "Notes">> >>

UpdateArgs(id, range, values) ==
    [spreadsheet_id |-> id, range_name |-> range, values |-> values, out |-> NoRet]

create_workout_tracker_await == ToThread("create_workout_tracker", "start", "create")

\* the worker function create(): the create request, then the first
\* self.update_values(...)
create_workout_tracker_create ==
    /\ At("create_workout_tracker", "create")
    /\ \E r \in CreateAnswers(remote) :
         /\ Request("spreadsheets.create",
                    [title |-> Top.loc.title, sheets |-> TrackerSheets], r.kind = "ok", r)
         /\ IF r.kind = "ok"
            THEN CallMethod("workout_headers", [Top.loc EXCEPT !.created = r],
                            "update_values",
                            UpdateArgs(r.spreadsheetId, "Workouts!A1:E1", WorkoutHeaders))
            ELSE Goto("resume", [Top.loc EXCEPT !.out = Exc("HttpError")])
    /\ UNCHANGED <<inv, ret, thread, task>>

\* mutant: the Nutrition header row is written to the range of five columns
create_workout_tracker_workout_headers_short_range ==
    /\ At("create_workout_tracker", "workout_headers")
    /\ ret.kind # "none"
    /\ IF ret.kind = "value"
       THEN CallMethod("nutrition_headers", Top.loc, "update_values",
                       UpdateArgs(Top.loc.created.spreadsheetId, "Nutrition!A1:E1",
                                  NutritionHeaders))
       ELSE Goto("resume", [Top.loc EXCEPT !.out = Exc(ret.v)])
    /\ ret' = NoRet
    /\ UNCHANGED <<inv, thread, task, log, remote>>

\* mutant: a failed Workouts header write is ignored and the Nutrition
\* header write is made all the same
create_workout_tracker_workout_headers_ignoring ==
    /\ At("create_workout_tracker", "workout_headers")
    /\ ret.kind # "none"
    /\ CallMethod("nutrition_headers", Top.loc, "update_values",
                  UpdateArgs(Top.loc.created.spreadsheetId, "Nutrition!A1:G1",
                             NutritionHeaders))
    /\ ret' = NoRet
    /\ UNCHANGED <<inv, thread, task, log, remote>>

\* the first update_values has ended: the second self.update_values(...)
create_workout_tracker_workout_headers ==
    /\ At("create_workout_tracker", "workout_headers")
    /\ ret.kind # "none"
    /\ IF ret.kind = "value"
       THEN CallMethod("nutrition_headers", Top.loc, "update_values",
                       UpdateArgs(Top.loc.created.spreadsheetId, "Nutrition!A1:G1",
                                  NutritionHeaders))
       ELSE Goto("resume", [Top.loc EXCEPT !.out = Exc(ret.v)])
    /\ ret' = NoRet
    /\ UNCHANGED <<inv, thread, task, log, remote>>

\* mutant: the created spreadsheet is returned although a header write failed
create_workout_tracker_nutrition_headers_returning ==
    /\ At("create_workout_tracker", "nutrition_headers")
    /\ ret.kind # "none"
    /\ Goto("resume", [Top.loc EXCEPT !.out = Value(Top.loc.created)])
    /\ ret' = NoRet
    /\ UNCHANGED <<inv, thread, task, log, remote>>

\* the second update_values has ended: return created_spreadsheet
create_workout_tracker_nutrition_headers ==
    /\ At("create_workout_tracker", "nutrition_headers")
    /\ ret.kind # "none"
    /\ Goto("resume", [Top.loc EXCEPT !.out =
            IF ret.kind = "value" THEN Value(Top.loc.created) ELSE Exc(ret.v)])
    /\ ret' = NoRet
    /\ UNCHANGED <<inv, thread, task, log, remote>>

create_workout_tracker_resume == ResumeOrRaise("create_workout_tracker")

(***************************************************************************)
(* sheets.py: add_workout_entry, add_nutrition_entry                       *)
(***************************************************************************)
\* return await self.append_values(...)
AwaitAppend(m, range, values) ==
    /\ At(m, "start")
    /\ CallMethod("appended", Top.loc, "append_values",
                  UpdateArgs(Top.loc.spreadsheet_id, range, values))
    /\ UNCHANGED <<inv, ret, thread, task, log, remote>>

\* append_values has ended: its value is returned, its exception re-raised
Appended(m) ==
    /\ At(m, "appended")
    /\ ret.kind # "none"
    /\ IF ret.kind = "value" THEN Return(ret.v) ELSE Raise(ret.v)
    /\ UNCHANGED <<inv, thread, task, log, remote>>

\* mutant: the workout entry is appended to the history sheet
add_workout_entry_await_history ==
    AwaitAppend("add_workout_entry", "Workout History!A:E",
                << <<Top.loc.date, Top.loc.workout_type, Top.loc.duration,
                     Top.loc.calories, Top.loc.notes>> >>)

add_workout_entry_await ==
    AwaitAppend("add_workout_entry", "Workouts!A:E",
                << <<Top.loc.date, Top.loc.workout_type, Top.loc.duration,
                     Top.loc.calories, Top.loc.notes>> >>)
add_workout_entry_appended == Appended("add_workout_entry")

add_nutrition_entry_await ==
    AwaitAppend("add_nutrition_entry", "Nutrition!A:G",
                << <<Top.loc.date, Top.loc.meal, Top.loc.calories, Top.loc.protein,
                     Top.loc.carbs, Top.loc.fat, Top.loc.notes>> >>)
add_nutrition_entry_appended == Appended("add_nutrition_entry")

(***************************************************************************)
(* Python str operations, on a str as the sequence of its characters.      *)
(***************************************************************************)
UpperLetters == <<"A", "B", "C", "D", "E", "F", "G", "H", "I", "J", "K", "L", "M",
                  "N", "O", "P", "Q", "R", "S", "T", "U", "V", "W", "X", "Y", "Z">>
LowerLetters == <<"a", "b", "c", "d", "e", "f", "g", "h", "i", "j", "k", "l", "m",
                  "n", "o", "p", "q", "r", "s", "t", "u", "v", "w", "x", "y", "z">>
DigitChars == <<"0", "1", "2", "3", "4", "5", "6", "7", "8", "9">>

\* str.lower()
LowerChar(c) ==
    IF \E i \in DOMAIN UpperLetters : UpperLetters[i] = c
    THEN LowerLetters[CHOOSE i \in DOMAIN UpperLetters : UpperLetters[i] = c]
    ELSE c
StrLower(s) == [i \in 1..Len(s) |-> LowerChar(s[i])]

\* str(n) of a non-negative int
RECURSIVE Decimal(_)
Decimal(n) ==
    IF n < 10 THEN <<DigitChars[n + 1]>>
    ELSE Decimal(n \div 10) \o <<DigitChars[(n % 10) + 1]>>

\* str(cell)
Str(cell) == IF cell.number THEN Decimal(cell.n) ELSE cell.s

\* needle in hay
Contains(needle, hay) ==
    \E i \in 0..(Len(hay) - Len(needle)) : SubSeq(hay, i + 1, i + Len(needle)) = needle

\* str.isdigit()
IsDigit(s) == s # <<>> /\ \A i \in 1..Len(s) : \E d \in DOMAIN DigitChars : DigitChars[d] = s[i]

\* float(s) of a str of digits
RECURSIVE Float(_)
Float(s) ==
    IF s = <<>> THEN 0
    ELSE 10 * Float(SubSeq(s, 1, Len(s) - 1))
         + (CHOOSE d \in DOMAIN DigitChars : DigitChars[d] = s[Len(s)]) - 1

(***************************************************************************)
(* sheets.py: get_sheet_data                                               *)
(***************************************************************************)
\* query: None, or a str
Queries == {None, Some(<<>>), Some(<<"a">>), Some(<<"a", "B">>), Some(<<"1">>)}

\* `if query:`
Truthy(query) == query # None /\ The(query) # <<>>

\* mutant: the comparison is case-sensitive
RowMatches_case_sensitive(row, query) ==
    \E j \in 1..Len(row) : Contains(query, Str(row[j]))

\* any(query.lower() in str(cell).lower() for cell in row)
RowMatches(row, query) ==
    \E j \in 1..Len(row) : Contains(StrLower(query), StrLower(Str(row[j])))

FilterRows(values, query) == SelectSeq(values, LAMBDA row : RowMatches(row, query))

get_sheet_data_await == ToThread("get_sheet_data", "start", "fetch")

\* the worker function fetch()
get_sheet_data_fetch ==
    /\ At("get_sheet_data", "fetch")
    /\ \E r \in ValuesAnswers(remote, Top.loc.spreadsheet_id, Top.loc.range_name) :
         /\ Request("values.get",
                    [spreadsheetId |-> Top.loc.spreadsheet_id, range |-> Top.loc.range_name],
                    r.kind = "ok", r)
         /\ Goto("resume", [Top.loc EXCEPT !.out =
                IF r.kind # "ok" THEN Exc("HttpError")
                ELSE IF Truthy(Top.loc.query)
                     THEN Value(FilterRows(Get(r.values, <<>>), The(Top.loc.query)))
                     ELSE Value(Get(r.values, <<>>))])
    /\ UNCHANGED <<inv, ret, thread, task>>

get_sheet_data_resume == ResumeOrRaise("get_sheet_data")

(***************************************************************************)
(* sheets.py: create_workout_summary (a plain `def`, not a coroutine)      *)
(***************************************************************************)
SummaryRows == 100
SummaryColumns == 10

AddSummarySheet ==
    << [addSheet |-> [title |-> "Summary", rowCount |-> SummaryRows,
                      columnCount |-> SummaryColumns]] >>

SummaryHeaders ==
    << <<"Workout Summary">>,
       <<"Total Workouts", "Total Duration", "Total Calories Burned",
         "Average Duration", "Average Calories">>,
       <<"Nutrition Summary">>,
       <<"Total Meals", "Total Calories", "Average Protein", "Average Carbs",
         "Average Fat">> >>

\* the methods declared `async def`: calling one without `await` returns a
\* coroutine object and runs nothing of its body
AsyncDefs ==
    {"get_directions", "find_nearby_places", "get_place_details", "search_places",
     "get_distance_matrix", "find_nearby_workout_locations", "get_location_details",
     "find_running_trails", "geocode_address", "_find_places_nearby",
     "get_spreadsheet", "get_values", "append_values", "create_workout_tracker",
     "add_workout_entry", "add_nutrition_entry", "get_workout_history",
     "get_nutrition_history", "get_sheet_data"}

\* the value of `self.m(spreadsheet_id)` written without `await`
PlainCall(m) ==
    IF m \in AsyncDefs THEN [kind |-> "coroutine", v |-> <<>>]
    ELSE [kind |-> "list", v |-> <<>>]

\* len(x): a coroutine object has no len()
HasLen(x) == x.kind = "list"

\* sum(float(r[k]) for r in rows if r[k].isdigit()), k counted from 0
RECURSIVE SumDigits(_, _)
SumDigits(rows, k) ==
    IF rows = <<>> THEN 0
    ELSE (IF IsDigit(rows[1][k + 1].s) THEN Float(rows[1][k + 1].s) ELSE 0)
         + SumDigits(Tail(rows), k)

\* r[k] raises IndexError on a short row, r[k].isdigit() AttributeError on a
\* cell that is no str
Summable(rows, k) ==
    \A i \in 1..Len(rows) : Len(rows[i]) > k /\ ~rows[i][k + 1].number

\* f"{num / den:.1f}": one decimal, a tie of the quotient rounded to even
\* (the code rounds the double nearest to the quotient)
Fixed1(num, den) ==
    LET t == (10 * num) \div den
        r == (10 * num) % den
        up == 2 * r > den \/ (2 * r = den /\ t % 2 = 1)
        tenths == IF up THEN t + 1 ELSE t
    IN  ToString(tenths \div 10) \o "." \o ToString(tenths % 10)

\* total / n if n > 0 else 0, formatted
Average(total, n) == IF n > 0 THEN Fixed1(total, n) ELSE Fixed1(0, 1)

SummaryValues(workouts, nutrition) ==
    << <<ToString(Len(workouts)), Fixed1(SumDigits(workouts, 2), 1),
         Fixed1(SumDigits(workouts, 3), 1),
         Average(SumDigits(workouts, 2), Len(workouts)),
         Average(SumDigits(workouts, 3), Len(workouts))>>,
       <<"", "", "", "", "">>,
       <<ToString(Len(nutrition)), Fixed1(SumDigits(nutrition, 2), 1),
         Average(SumDigits(nutrition, 3), Len(nutrition)),
         Average(SumDigits(nutrition, 4), Len(nutrition)),
         Average(SumDigits(nutrition, 5), Len(nutrition))>> >>

\* self.batch_update(spreadsheet_id, requests)
create_workout_summary_add_sheet ==
    /\ At("create_workout_summary", "start")
    /\ CallMethod("headers", Top.loc, "batch_update",
                  [spreadsheet_id |-> Top.loc.spreadsheet_id,
                   requests |-> AddSummarySheet, out |-> NoRet])
    /\ UNCHANGED <<inv, ret, thread, task, log, remote>>

\* batch_update has ended: self.update_values(id, 'Summary!A1:E4', headers)
create_workout_summary_headers ==
    /\ At("create_workout_summary", "headers")
    /\ ret.kind # "none"
    /\ IF ret.kind = "value"
       THEN /\ CallMethod("history", Top.loc, "update_values",
                          UpdateArgs(Top.loc.spreadsheet_id, "Summary!A1:E4",
                                     SummaryHeaders))
            /\ ret' = NoRet
       ELSE Raise(ret.v)
    /\ UNCHANGED <<inv, thread, task, log, remote>>

\* update_values has ended: the rest of the body.  workouts and nutrition
\* are what the un-awaited calls of get_workout_history and
\* get_nutrition_history return
create_workout_summary_history ==
    /\ At("create_workout_summary", "history")
    /\ ret.kind # "none"
    /\ LET workouts == PlainCall("get_workout_history")
           nutrition == PlainCall("get_nutrition_history")
       IN  IF ret.kind = "exc" THEN Raise(ret.v) /\ UNCHANGED <<log, remote>>
           ELSE IF ~HasLen(workouts) THEN Raise("TypeError") /\ UNCHANGED <<log, remote>>
           ELSE IF ~Summable(workouts.v, 2) \/ ~Summable(workouts.v, 3)
           THEN Raise("IndexError") /\ UNCHANGED <<log, remote>>
           ELSE IF ~HasLen(nutrition) THEN Raise("TypeError") /\ UNCHANGED <<log, remote>>
           ELSE IF \E k \in 2..5 : ~Summable(nutrition.v, k)
           THEN Raise("IndexError") /\ UNCHANGED <<log, remote>>
           ELSE \E r \in ClientResponses :
                  /\ r.kind = "ok" =>
                        HasSheet(remote, Top.loc.spreadsheet_id, "Summary")
                  /\ Request("values.update",
                             [spreadsheetId |-> Top.loc.spreadsheet_id,
                              range |-> "Summary!A2:E4", valueInputOption |-> "RAW",
                              values |-> SummaryValues(workouts.v, nutrition.v)],
                             r.kind = "ok", r)
                  /\ IF r.kind = "ok" THEN Return(r.payload) ELSE Raise("HttpError")
    /\ UNCHANGED <<inv, thread, task>>

(***************************************************************************)
(* The caller: one invocation at a time.                                   *)
(***************************************************************************)
Args(m, a) == [m |-> m, args |-> a]

Invocations ==
    {Args("get_directions", [origin |-> "A", destination |-> "B", out |-> NoRet])}
    \cup {Args("find_nearby_places",
               [location |-> "0,7", radius |-> PlacesRadius, type |-> "gym", out |-> NoRet])}
    \cup {Args("get_place_details", [place_id |-> p, out |-> NoRet]) : p \in PlaceIds}
    \cup {Args("search_places",
               [query |-> "gym", location |-> None, radius |-> PlacesRadius, out |-> NoRet])}
    \cup {Args("get_distance_matrix",
               [origins |-> <<"A">>, destinations |-> <<"B">>, mode |-> "driving",
                out |-> NoRet])}
    \cup {Args("find_nearby_workout_locations",
               [arg |-> l, lat |-> None, lng |-> None, out |-> NoRet]) : l \in Locations}
    \cup {Args("get_location_details", [place_id |-> p, out |-> NoRet]) : p \in PlaceIds}
    \cup {Args("find_running_trails",
               [location |-> l, radius |-> TrailsRadius, out |-> NoRet]) : l \in TrailLocations}
    \cup {Args("geocode_address", [address |-> a, out |-> NoRet]) : a \in Addresses}
    \cup {Args("_find_places_nearby",
               [lat |-> 0, lng |-> 7, type_filter |-> tf, radius |-> NearbyRadius,
                out |-> NoRet]) :
            tf \in {None, Some(<<"gym", "fitness">>), Some(<<"park">>)}}
    \cup {Args("create_spreadsheet", [title |-> t, out |-> NoRet]) : t \in Titles}
    \cup {Args("get_spreadsheet", [spreadsheet_id |-> id, out |-> NoRet]) : id \in SheetIds}
    \cup {Args("update_values", UpdateArgs(id, r, << <<"x">> >>)) :
            id \in SheetIds, r \in Ranges}
    \cup {Args("get_values", [spreadsheet_id |-> id, range_name |-> r, out |-> NoRet]) :
            id \in SheetIds, r \in Ranges}
    \cup {Args("append_values", UpdateArgs(id, r, << <<"x">> >>)) :
            id \in SheetIds, r \in Ranges \cup {"Workout History!A:E"}}
    \cup {Args("batch_update",
               [spreadsheet_id |-> id, requests |-> AddSummarySheet, out |-> NoRet]) :
            id \in SheetIds}
    \cup {Args("create_workout_tracker",
               [title |-> t, created |-> [kind |-> "-", spreadsheetId |-> "-"],
                out |-> NoRet]) : t \in Titles}
    \cup {Args("add_workout_entry",
               [spreadsheet_id |-> id, date |-> "2024-01-01", workout_type |-> "Run",
                duration |-> "30", calories |-> "300", notes |-> "", out |-> NoRet]) :
            id \in SheetIds}
    \cup {Args("add_nutrition_entry",
               [spreadsheet_id |-> id, date |-> "2024-01-01", meal |-> "Lunch",
                calories |-> "600", protein |-> "30", carbs |-> "60", fat |-> "20",
                notes |-> "", out |-> NoRet]) : id \in SheetIds}
    \cup {Args("get_workout_history", [spreadsheet_id |-> id, out |-> NoRet]) :
            id \in SheetIds}
    \cup {Args("get_nutrition_history", [spreadsheet_id |-> id, out |-> NoRet]) :
            id \in SheetIds}
    \cup {Args("create_workout_summary", [spreadsheet_id |-> id, out |-> NoRet]) :
            id \in SheetIds}
    \cup {Args("get_sheet_data",
               [spreadsheet_id |-> id, range_name |-> r, query |-> q, out |-> NoRet]) :
            id \in SheetIds, r \in Ranges, q \in Queries}

\* the spreadsheets at the start: s1 is a tracker whose owner has added the
\* two history sheets, s2 has not been created
InitialRemote ==
    [id \in SheetIds |->
        IF id = "s1"
        THEN [exists |-> TRUE,
              sheets |-> [n \in SheetNames |->
                  CASE n = "Workouts" -> Some(WorkoutHeaders)
                    [] n = "Nutrition" -> Some(NutritionHeaders)
                    [] n = "Workout History" ->
                         Some(<< <<"2023-12-31", "Walk", "20", "100", "">> >>)
                    [] n = "Nutrition History" -> Some(<<>>)
                    [] OTHER -> None]]
        ELSE NoSpreadsheet]

\* the rows the invocations append, and how many of them the sheets hold
EntryRows == {i.args.values[1] : i \in {j \in Invocations : j.m = "append_values"}}
             \cup {<<"2024-01-01", "Run", "30", "300", "">>,
                   <<"2024-01-01", "Lunch", "600", "30", "60", "20", "">>}

Entries(store) ==
    Cardinality(UNION {
        {<<id, n, k>> : k \in {j \in DOMAIN Get(store[id].sheets[n], <<>>) :
                                  The(store[id].sheets[n])[j] \in EntryRows}} :
        id \in SheetIds, n \in SheetNames})

Appends(m) == m \in {"append_values", "add_workout_entry", "add_nutrition_entry"}

Idle == stack = <<>> /\ ret.kind = "none"
Done == stack = <<>> /\ ret.kind # "none"

Init ==
    /\ inv = NoInv
    /\ stack = <<>>
    /\ ret = NoRet
    /\ thread = "loop"
    /\ task = "idle"
    /\ log = <<>>
    /\ trace = <<>>
    /\ remote = InitialRemote

\* the caller invokes a gateway method from the event loop
CallOf(invocations) ==
    /\ Idle
    /\ \E i \in invocations :
         /\ Appends(i.m) => Entries(remote) < MaxEntries
         /\ inv' = i
         /\ stack' = <<Frame(i.m, "start", i.args)>>
         /\ trace' = <<Event("call", i.m)>>
    /\ task' = "running"
    /\ log' = <<>>
    /\ UNCHANGED <<ret, thread, remote>>

Call == CallOf(Invocations)

\* the caller has taken the value or the exception
Finish ==
    /\ Done
    /\ inv' = NoInv
    /\ ret' = NoRet
    /\ task' = "idle"
    /\ log' = <<>>
    /\ trace' = <<>>
    /\ UNCHANGED <<stack, thread, remote>>

\* one invocation of any method, on the spreadsheets of the start
Next ==
    \/ Call
    \/ get_directions_call
    \/ find_nearby_places_call
    \/ get_place_details_await \/ get_place_details_fetch \/ get_place_details_resume
    \/ search_places_await \/ search_places_search \/ search_places_resume
    \/ get_distance_matrix_await \/ get_distance_matrix_fetch \/ get_distance_matrix_resume
    \/ find_nearby_workout_locations_start
    \/ find_nearby_workout_locations_geocoded
    \/ find_nearby_workout_locations_search
    \/ find_nearby_workout_locations_searched
    \/ get_location_details_await \/ get_location_details_fetch
    \/ get_location_details_resume
    \/ find_running_trails_await \/ find_running_trails_search \/ find_running_trails_resume
    \/ geocode_address_await \/ geocode_address_geocode \/ geocode_address_resume
    \/ find_places_nearby_await \/ find_places_nearby_search \/ find_places_nearby_resume
    \/ create_spreadsheet_call
    \/ get_spreadsheet_await \/ get_spreadsheet_fetch \/ get_spreadsheet_resume
    \/ update_values_call
    \/ get_values_await \/ get_values_fetch \/ get_values_resume
    \/ append_values_call
    \/ batch_update_call
    \/ create_workout_tracker_await \/ create_workout_tracker_create
    \/ create_workout_tracker_workout_headers
    \/ create_workout_tracker_nutrition_headers
    \/ create_workout_tracker_resume
    \/ add_workout_entry_await \/ add_workout_entry_appended
    \/ add_nutrition_entry_await \/ add_nutrition_entry_appended
    \/ get_workout_history_await \/ get_workout_history_fetch
    \/ get_workout_history_resume
    \/ get_nutrition_history_await \/ get_nutrition_history_fetch
    \/ get_nutrition_history_resume
    \/ create_workout_summary_add_sheet
    \/ create_workout_summary_headers
    \/ create_workout_summary_history
    \/ get_sheet_data_await \/ get_sheet_data_fetch \/ get_sheet_data_resume

Spec == Init /\ [][Next]_vars

\* a caller that keeps a workout tracker: invocations of the Sheets gateway
\* one after the other, on the spreadsheets the earlier ones have left
TrackerMethods ==
    {"create_workout_tracker", "add_workout_entry", "add_nutrition_entry",
     "get_workout_history", "get_nutrition_history", "create_workout_summary",
     "append_values", "update_values", "batch_update"}

TrackerCall == CallOf({i \in Invocations : i.m \in TrackerMethods})

TrackerNext ==
    \/ TrackerCall
    \/ Finish
    \/ update_values_call
    \/ append_values_call
    \/ batch_update_call
    \/ create_workout_tracker_await \/ create_workout_tracker_create
    \/ create_workout_tracker_workout_headers
    \/ create_workout_tracker_nutrition_headers
    \/ create_workout_tracker_resume
    \/ add_workout_entry_await \/ add_workout_entry_appended
    \/ add_nutrition_entry_await \/ add_nutrition_entry_appended
    \/ get_workout_history_await \/ get_workout_history_fetch
    \/ get_workout_history_resume
    \/ get_nutrition_history_await \/ get_nutrition_history_fetch
    \/ get_nutrition_history_resume
    \/ create_workout_summary_add_sheet
    \/ create_workout_summary_headers
    \/ create_workout_summary_history

Tracker == Init /\ [][TrackerNext]_vars

(***************************************************************************)
(* Properties.                                                             *)
(***************************************************************************)
Invoked(m) == inv.m = m
Calls(m) == {i \in DOMAIN trace : trace[i] = Event("call", m)}
Ends(ev, m) == {i \in DOMAIN trace : trace[i] = Event(ev, m)}
Requests(op) == {i \in DOMAIN log : log[i].op = op}

\* C1: find_nearby_workout_locations given a dict with both 'lat' and 'lng'
\* never invokes geocode_address; given a str it invokes geocode_address
\* exactly once, that invocation has ended before _find_places_nearby is
\* started, and the search request carries the coordinates geocoded.
C1_GeocodeOnlyForAddress ==
    Invoked("find_nearby_workout_locations") =>
        LET a == inv.args.arg
            geocodes == Calls("geocode_address")
            searches == Calls("_find_places_nearby")
        IN  /\ (a.kind = "dict" /\ a.lat # None /\ a.lng # None)
                => (geocodes = {} /\ Requests("geocode") = {})
            /\ (a.kind = "str") =>
                /\ Cardinality(geocodes) <= 1
                /\ Cardinality(Requests("geocode")) <= 1
                /\ (Done \/ searches # {}) => Cardinality(geocodes) = 1
                /\ \A s \in searches :
                     \E e \in Ends("return", "geocode_address") :
                        e < s /\ \A g \in geocodes : g < e
                /\ \A i \in Requests("nearbysearch") :
                     \E j \in Requests("geocode") :
                        /\ j < i
                        /\ log[j].resp.kind = "ok"
                        /\ log[i].req.location = <<log[j].resp.lat, log[j].resp.lng>>

C1_Witness ==
    /\ Invoked("find_nearby_workout_locations")
    /\ Done
    /\ inv.args.arg.kind = "str"
    /\ Len(log) = 2
    /\ log[1].op = "geocode" /\ log[1].resp.lat = 7 /\ log[1].resp.lng = 0
    /\ log[2].op = "nearbysearch" /\ log[2].req.location = <<7, 0>>

\* C2: a failed vendor call inside get_distance_matrix ends the method by
\* raising that error; a failed HTTP request inside find_running_trails
\* (exception or non-2xx status) ends the method by returning [].
C2_FailurePaths ==
    /\ (Invoked("get_distance_matrix") /\ Done /\ \E i \in DOMAIN log : ~log[i].ok)
           => (ret.kind = "exc" /\ ret.v = "ApiError")
    /\ (Invoked("find_running_trails") /\ Done /\ \E i \in DOMAIN log : ~log[i].ok)
           => (ret.kind = "value" /\ ret.v = <<>>)

C2_Witness ==
    /\ Invoked("find_running_trails")
    /\ Done
    /\ Len(log) = 1
    /\ log[1].resp.kind = "http_error"
    /\ ret.kind = "value"

\* C3: find_nearby_workout_locations never raises; when the geocoding or the
\* nearby search fails, or the input is invalid, it returns []; and for an
\* invalid input (a dict without 'lat' or 'lng', a value that is neither
\* str nor dict) no nearby-search request is made.
C3_NeverRaises ==
    Invoked("find_nearby_workout_locations") =>
        LET a == inv.args.arg
            invalid == a.kind = "other"
                       \/ (a.kind = "dict" /\ (a.lat = None \/ a.lng = None))
            failed == invalid \/ \E i \in DOMAIN log : log[i].resp.kind # "ok"
        IN  /\ Done => ret.kind = "value"
            /\ Ends("raise", "find_nearby_workout_locations") = {}
            /\ (Done /\ failed) => ret.v = <<>>
            /\ invalid => (Requests("nearbysearch") = {}
                           /\ Calls("_find_places_nearby") = {})

C3_Witness ==
    /\ Invoked("find_nearby_workout_locations")
    /\ Done
    /\ Len(log) = 2
    /\ log[2].op = "nearbysearch" /\ log[2].resp.kind = "exception"
    /\ ret.kind = "value" /\ ret.v = <<>>

\* C4: when every vendor call succeeds, create_workout_summary adds the
\* 'Summary' sheet, writes the header labels to Summary!A1:E4, reads the
\* workout history, reads the nutrition history, writes the summary values
\* to Summary!A2:E4 and returns that write's response.
C4_SummaryRunsToCompletion ==
    (Invoked("create_workout_summary") /\ Done /\ \A i \in DOMAIN log : log[i].ok) =>
        /\ ret.kind = "value"
        /\ Len(log) = 5
        /\ log[1].op = "spreadsheets.batchUpdate"
        /\ log[2].op = "values.update" /\ log[2].req.range = "Summary!A1:E4"
        /\ log[3].op = "values.get" /\ log[3].req.range = "Workout History!A:Z"
        /\ log[4].op = "values.get" /\ log[4].req.range = "Nutrition History!A:Z"
        /\ log[5].op = "values.update" /\ log[5].req.range = "Summary!A2:E4"
        /\ ret.v = log[5].resp.payload

\* C5: the totals and averages create_workout_summary writes are computed
\* from the fields of the history rows that are plain non-negative integer
\* strings, and each average is 0 when its history is empty.
C5_AggregatesOfIntegerFields ==
    (Invoked("create_workout_summary") /\ Done /\ \A i \in DOMAIN log : log[i].ok) =>
        \E w \in Requests("values.update"), hw \in Requests("values.get"),
           hn \in Requests("values.get") :
            /\ log[hw].req.range = "Workout History!A:Z"
            /\ log[hn].req.range = "Nutrition History!A:Z"
            /\ log[w].req.range = "Summary!A2:E4"
            /\ LET workouts == Get(log[hw].resp.values, <<>>)
                   nutrition == Get(log[hn].resp.values, <<>>)
               IN  /\ log[w].req.values = SummaryValues(workouts, nutrition)
                   /\ workouts = <<>> =>
                        (log[w].req.values[1][4] = "0.0" /\ log[w].req.values[1][5] = "0.0")
                   /\ nutrition = <<>> =>
                        \A c \in 3..5 : log[w].req.values[3][c] = "0.0"

\* C6: when create_workout_tracker returns, the spreadsheet was requested
\* with exactly the sheets 'Workouts' and 'Nutrition' (1000 rows by 10
\* columns each), and after the create call exactly two header writes were
\* made to the id the create call answered: the workout header row to
\* Workouts!A1:E1, then the nutrition header row to Nutrition!A1:G1.
C6_TrackerSheetsAndHeaders ==
    (Invoked("create_workout_tracker") /\ Done /\ ret.kind = "value") =>
        /\ Len(log) = 3
        /\ \A i \in 1..3 : log[i].ok
        /\ log[1].op = "spreadsheets.create"
        /\ log[1].req.sheets =
             << [title |-> "Workouts", rowCount |-> 1000, columnCount |-> 10],
                [title |-> "Nutrition", rowCount |-> 1000, columnCount |-> 10] >>
        /\ log[2].op = "values.update"
        /\ log[2].req.spreadsheetId = log[1].resp.spreadsheetId
        /\ log[2].req.range = "Workouts!A1:E1"
        /\ log[2].req.values =
             << <<"Date", "Workout Type", "Duration", "Calories Burned", "Notes">> >>
        /\ log[3].op = "values.update"
        /\ log[3].req.spreadsheetId = log[1].resp.spreadsheetId
        /\ log[3].req.range = "Nutrition!A1:G1"
        /\ log[3].req.values =
             << <<"Date", "Meal", "Calories", "Protein (g)", "Carbs (g)", "Fat (g)",
                  "Notes">> >>
        /\ ret.v.spreadsheetId = log[1].resp.spreadsheetId

C6_Witness ==
    /\ Invoked("create_workout_tracker")
    /\ Done
    /\ ret.kind = "value"
    /\ ret.v.spreadsheetId = "s2"

\* two characters that are equal up to the case of a letter
SameLetter(c, d) ==
    c = d \/ \E i \in DOMAIN UpperLetters : {c, d} = {UpperLetters[i], LowerLetters[i]}

\* the text holds the query, case-insensitively, at some offset
TextHolds(text, query) ==
    \E off \in 0..(Len(text) - Len(query)) :
        \A k \in 1..Len(query) : SameLetter(query[k], text[off + k])

\* C7: get_sheet_data with a non-empty query returns exactly the fetched
\* rows in which the text of some cell holds the query case-insensitively,
\* in their original order; with no query (None or "") every fetched row.
C7_SheetDataFilter ==
    (Invoked("get_sheet_data") /\ Done /\ ret.kind = "value") =>
        LET fetched == Get(log[1].resp.values, <<>>)
            q == inv.args.query
            matching == {i \in 1..Len(fetched) :
                            \E j \in 1..Len(fetched[i]) :
                                TextHolds(Str(fetched[i][j]), The(q))}
            Kth(k) == CHOOSE i \in matching : Cardinality({j \in matching : j < i}) = k - 1
        IN  IF q = None \/ The(q) = <<>>
            THEN ret.v = fetched
            ELSE /\ Len(ret.v) = Cardinality(matching)
                 /\ \A k \in 1..Len(ret.v) : ret.v[k] = fetched[Kth(k)]

C7_Witness ==
    /\ Invoked("get_sheet_data")
    /\ Done
    /\ ret.kind = "value"
    /\ inv.args.query = Some(<<"a", "B">>)
    /\ log[1].resp.values = Some(<< <<StrCell(<<"B", "A">>), StrCell(<<"a", "1">>)>>,
                                    <<StrCell(<<"A", "b">>)>> >>)
    /\ ret.v = << <<StrCell(<<"A", "b">>)>> >>

C9_RequestsOnWorkerThread ==
    inv.m \in AsyncDefs => \A i \in DOMAIN log : log[i].thread = "worker"

\* the methods whose `except` returns a value, and the value it returns
Swallowing ==
    {"get_directions", "find_nearby_places", "find_nearby_workout_locations",
     "get_location_details", "find_running_trails", "_find_places_nearby"}

\* C10: no retries: within one invocation no request is made twice, a failed
\* request is the last request of the invocation, and the invocation then
\* ends with its failure outcome (the exception, or the method's default).
C10_NoRetries ==
    /\ \A i, j \in DOMAIN log :
         i < j => ~(log[i].op = log[j].op /\ log[i].req = log[j].req)
    /\ \A i \in DOMAIN log : ~log[i].ok => i = Len(log)
    /\ (Done /\ log # <<>> /\ ~log[Len(log)].ok) =>
         IF inv.m \in Swallowing
         THEN /\ ret.kind = "value"
              /\ CASE inv.m = "get_directions" ->
                        ret.v = <<[tag |-> "Error getting directions", n |-> 0,
                                   text |-> "ApiError"]>>
                   [] inv.m = "find_nearby_places" ->
                        ret.v = <<[tag |-> "Error finding nearby places", n |-> 0,
                                   text |-> "ApiError"]>>
                   [] inv.m = "get_location_details" -> ret.v = "{}"
                   [] OTHER -> ret.v = <<>>
         ELSE ret.kind = "exc"

C10_Witness ==
    /\ Invoked("create_workout_tracker")
    /\ Done
    /\ Len(log) = 2
    /\ log[1].ok /\ ~log[2].ok
    /\ ret.kind = "exc"

\* C11: get_location_details never raises; it returns the 'result' of the
\* response when the request answered a JSON object whose 'status' is 'OK',
\* and the empty dict in every other case: another status, an exception of
\* the request, a response that is no JSON or lacks 'status' or 'result'.
C11_LocationDetails ==
    Invoked("get_location_details") =>
        /\ Ends("raise", "get_location_details") = {}
        /\ Len(log) <= 1
        /\ Done =>
             /\ ret.kind = "value"
             /\ Len(log) = 1
             /\ LET r == log[1].resp
                    answered == log[1].ok /\ r.kind = "json" /\ r.status = Some("OK")
                                /\ r.result # None
                IN  /\ answered => ret.v = The(r.result)
                    /\ ~answered => ret.v = "{}"
                    /\ ret.v # "{}" => answered

C11_Witness ==
    /\ Invoked("get_location_details")
    /\ Done
    /\ log[1].resp.kind = "json"
    /\ log[1].resp.status = Some("OK")
    /\ log[1].resp.result = Some("details")
    /\ ret = Value("details")

C11_Witness_NotOk ==
    /\ Invoked("get_location_details")
    /\ Done
    /\ log[1].resp.kind = "json"
    /\ log[1].resp.status = Some("NOT_FOUND")
    /\ log[1].resp.result = Some("details")
    /\ ret = Value("{}")

\* C12: the request of _find_places_nearby always carries type 'gym',
\* whatever the type_filter argument is (None, a list with or without
\* 'gym'); the request is determined by lat, lng and radius, and the places
\* returned by the answer to the request, so type_filter has no effect.
C12_AlwaysGymType ==
    /\ (Invoked("_find_places_nearby") \/ Invoked("find_nearby_workout_locations")) =>
          \A i \in Requests("nearbysearch") : log[i].req.type = "gym"
    /\ Invoked("_find_places_nearby") =>
          /\ Len(log) <= 1
          /\ \A i \in DOMAIN log :
                log[i].req = [location |-> <<inv.args.lat, inv.args.lng>>,
                              radius |-> inv.args.radius, type |-> "gym"]
          /\ Done =>
                /\ Len(log) = 1
                /\ ret = Value(IF log[1].resp.kind = "ok"
                               THEN Places(Get(log[1].resp.results, <<>>))
                               ELSE <<>>)

C12_Witness ==
    /\ Invoked("_find_places_nearby")
    /\ Done
    /\ inv.args.type_filter = Some(<<"park">>)
    /\ log[1].req.type = "gym"
    /\ log[1].resp.kind = "ok"
    /\ ret.kind = "value" /\ Len(ret.v) = 1 /\ ret.v[1].name = "Gym A"

\* a spreadsheet, and a sheet, that the vendor has is never taken away
NothingRemoved ==
    \A id \in SheetIds :
        /\ remote[id].exists => remote'[id].exists
        /\ \A n \in SheetNames :
             remote[id].sheets[n] # None => remote'[id].sheets[n] # None

\* what a compound operation that failed after its first step has left
LeftBehind ==
    /\ (Invoked("create_workout_tracker") /\ Done /\ Len(log) >= 2 /\ log[1].ok
          /\ ~log[Len(log)].ok) =>
            LET id == log[1].resp.spreadsheetId IN
            /\ ret.kind = "exc" /\ ret.v = "HttpError"
            /\ remote[id].exists
            /\ remote[id].sheets["Workouts"] =
                   Some(IF Len(log) = 3
                        THEN << <<"Date", "Workout Type", "Duration", "Calories Burned",
                                  "Notes">> >>
                        ELSE <<>>)
            /\ remote[id].sheets["Nutrition"] = Some(<<>>)
    /\ (Invoked("create_workout_summary") /\ Done /\ log # <<>> /\ log[1].ok) =>
            /\ ret.kind = "exc"
            /\ remote[inv.args.spreadsheet_id].sheets["Summary"] # None

\* C13: the compound spreadsheet operations do no rollback.  When a header
\* write of create_workout_tracker fails, the operation raises (the id is not
\* returned) and the spreadsheet exists, without the headers that were not
\* written; when create_workout_summary fails after its batch update, the
\* 'Summary' sheet is there; and no later step takes a spreadsheet or a
\* sheet away.
C13_NoRollback == []LeftBehind /\ [][NothingRemoved]_vars

C13_Witness ==
    /\ Invoked("create_workout_tracker")
    /\ Done
    /\ Len(log) = 3
    /\ log[1].ok /\ log[2].ok /\ ~log[3].ok
    /\ ret.kind = "exc"
    /\ remote["s2"].exists
    /\ remote["s2"].sheets["Workouts"] = Some(WorkoutHeaders)
    /\ remote["s2"].sheets["Nutrition"] = Some(<<>>)

C13_Witness_Summary ==
    /\ Invoked("create_workout_summary")
    /\ Done
    /\ Len(log) = 2
    /\ log[1].ok /\ ~log[2].ok
    /\ ret.kind = "exc"
    /\ remote["s1"].sheets["Summary"] = Some(<<>>)

History(id) ==
    <<remote[id].sheets["Workout History"], remote[id].sheets["Nutrition History"]>>

\* the requests of the add operations and of the history operations, and
\* what the history operations return
HistoryRanges ==
    /\ Invoked("add_workout_entry") =>
         \A i \in DOMAIN log : log[i].op = "values.append" /\ log[i].req.range = "Workouts!A:E"
    /\ Invoked("add_nutrition_entry") =>
         \A i \in DOMAIN log : log[i].op = "values.append" /\ log[i].req.range = "Nutrition!A:G"
    /\ Invoked("get_workout_history") =>
         /\ \A i \in DOMAIN log :
              log[i].op = "values.get" /\ log[i].req.range = "Workout History!A:Z"
         /\ (Done /\ ret.kind = "value") =>
              ret.v = The(History(inv.args.spreadsheet_id)[1])
    /\ Invoked("get_nutrition_history") =>
         /\ \A i \in DOMAIN log :
              log[i].op = "values.get" /\ log[i].req.range = "Nutrition History!A:Z"
         /\ (Done /\ ret.kind = "value") =>
              ret.v = The(History(inv.args.spreadsheet_id)[2])

\* no step of add_workout_entry, add_nutrition_entry or
\* create_workout_tracker creates or writes a history sheet
HistoryKept ==
    inv.m \in {"add_workout_entry", "add_nutrition_entry", "create_workout_tracker"} =>
        \A id \in SheetIds :
            <<remote'[id].sheets["Workout History"], remote'[id].sheets["Nutrition History"]>>
                = History(id)

\* C14: the add operations append only to the sheets 'Workouts' and
\* 'Nutrition', the history operations read only 'Workout History!A:Z' and
\* 'Nutrition History!A:Z' and return the rows of those sheets, and neither
\* the add operations nor create_workout_tracker create or write them: what
\* the history operations return is the same after any sequence of adds.
C14_HistoryUnchangedByAdds == []HistoryRanges /\ [][HistoryKept]_vars

C14_Witness ==
    /\ Invoked("get_workout_history")
    /\ Done
    /\ inv.args.spreadsheet_id = "s1"
    /\ Len(The(remote["s1"].sheets["Workouts"])) = 2
    /\ ret = Value(The(InitialRemote["s1"].sheets["Workout History"]))

====
